---------------------------- MODULE Spec2Model ----------------------------
(* Slot / booking consistency of the consultation booking backend          *)
(* (src/server.js).  Every request handler is a process that runs from one *)
(* `await` to the next; the steps of different requests interleave.        *)
EXTENDS Integers, FiniteSets, Sequences, TLC

(***************************************************************************)
(* Bounds of the model.                                                    *)
(***************************************************************************)
MaxTime == 2
MaxSlotRows == 2
MaxBookingRows == 2

\* Requests that can be in flight at the same moment.
Procs == {1, 2}

(***************************************************************************)
(* Input domains.  A time is the position of an ISO timestamp in the       *)
(* chronological (= lexicographic) order; NoTime is an absent/empty field. *)
(***************************************************************************)
NoTime == 0
Times == 1..MaxTime
Names == {"", "ann"}
Emails == {"", "ann@example.org"}
Phones == {""}
\* `capacity: null` of a body and NULL of the capacity column, kept apart from
\* every number a capacity can be.
NullCapacity == -1
\* capacity as it arrives in the body: <<>> when the field is absent.
CapacityInputs == {<<>>, <<0>>, <<1>>, <<2>>}
NULL == "NULL"
NoId == 0

\* (start, end) of a request: a consultation range [t, t+1].
Ranges == {<<t, t + 1>> : t \in Times}

\* JavaScript falsiness of a body field (`!x`): absent or empty.
MissingText(x) == x = ""

MissingTime(x) == x = NoTime

\* Bodies of POST /api/bookings with every required field.
CompleteBookingBodies ==
  {[name |-> n, email |-> e, phone |-> ph, start |-> r[1], end |-> r[2]] :
     n \in Names \ {""}, e \in Emails \ {""}, ph \in Phones, r \in Ranges}

\* Bodies of POST /api/bookings: complete, or with one required field missing.
BookingBodies ==
  CompleteBookingBodies
    \cup {[b EXCEPT !.name = ""] : b \in CompleteBookingBodies}
    \cup {[b EXCEPT !.email = ""] : b \in CompleteBookingBodies}
    \cup {[b EXCEPT !.start = NoTime] : b \in CompleteBookingBodies}
    \cup {[b EXCEPT !.end = NoTime] : b \in CompleteBookingBodies}

\* Bodies of POST /api/admin/slots: complete, or with start or end missing.
SlotBodies ==
  LET complete == {[start |-> r[1], end |-> r[2], capacity |-> c] :
                     r \in Ranges, c \in CapacityInputs}
  IN  complete \cup {[b EXCEPT !.start = NoTime] : b \in {c \in complete : c.capacity = <<>>}}
               \cup {[b EXCEPT !.end = NoTime] : b \in {c \in complete : c.capacity = <<>>}}

\* Bodies of POST /api/admin/slots with `capacity: null`.
NullSlotBodies ==
  {[start |-> r[1], end |-> r[2], capacity |-> <<NullCapacity>>] : r \in Ranges}

VARIABLES
  slots,        \* table admin_slots: rows [id, start_time, end_time, capacity]
  bookings,     \* table bookings: rows [id, name, email, phone, start_time, end_time, google_event_id]
  slotSeq,      \* AUTOINCREMENT sequence of admin_slots
  bookingSeq,   \* AUTOINCREMENT sequence of bookings
  calendarOn,   \* calendar && process.env.SYNC_TO_GOOGLE === 'true'
  mailOn,       \* transporter !== null
  pc,           \* position of each request handler
  local,        \* local variables of each request handler
  response      \* the response sent last

vars == <<slots, bookings, slotSeq, bookingSeq, calendarOn, mailOn, pc, local, response>>

db == <<slots, bookings, slotSeq, bookingSeq>>
config == <<calendarOn, mailOn>>

NoLocal ==
  [name |-> "", email |-> "", phone |-> "", start |-> NoTime, end |-> NoTime,
   capacity |-> 0, bookingId |-> NoId, eventId |-> NoId]

NoResponse == [route |-> "", status |-> 0, error |-> "", id |-> NoId, body |-> <<>>]

\* res.status(status).json({ error }) or res.status(status).json({ id, message })
Reply(route, status, error, id) ==
  [route |-> route, status |-> status, error |-> error, id |-> id, body |-> <<>>]

\* res.json(rows)
ReplyRows(route, rows) ==
  [route |-> route, status |-> 200, error |-> "", id |-> NoId, body |-> rows]

\* COUNT(1) of the rows of a bookings table with the given (start_time, end_time)
OccupancyIn(rows, st, en) ==
  Cardinality({b \in rows : b.start_time = st /\ b.end_time = en})

\* (SELECT COUNT(1) FROM bookings b WHERE b.start_time = s.start_time AND b.end_time = s.end_time)
Occupancy(st, en) == OccupancyIn(bookings, st, en)

\* the stored capacity taken as it is: slot.capacity
EffectiveCapacity_Stored(c) == c

\* (slot.capacity || 1)
EffectiveCapacity(c) == IF c = 0 \/ c = NullCapacity THEN 1 ELSE c

\* rows of admin_slots WHERE start_time = ? AND end_time = ?
SlotsAt(st, en) == {s \in slots : s.start_time = st /\ s.end_time = en}

Init ==
  /\ slots = {}
  /\ bookings = {}
  /\ slotSeq = 0
  /\ bookingSeq = 0
  /\ calendarOn \in BOOLEAN
  /\ mailOn \in BOOLEAN
  /\ pc = [p \in Procs |-> "idle"]
  /\ local = [p \in Procs |-> NoLocal]
  /\ response = NoResponse

\* A request that arrives is served by the first free handler; handlers are
\* interchangeable, so which free one serves it makes no difference.
Free(p) == pc[p] = "idle" /\ \A q \in Procs : q < p => pc[q] # "idle"

\* The handler returns: its locals are gone and the response goes out.
\* `response` is what the current step sends, NoResponse when it sends nothing.
Respond(p, r) ==
  /\ pc' = [pc EXCEPT ![p] = "idle"]
  /\ local' = [local EXCEPT ![p] = NoLocal]
  /\ response' = r

Goto(p, label, l) ==
  /\ pc' = [pc EXCEPT ![p] = label]
  /\ local' = [local EXCEPT ![p] = l]
  /\ response' = NoResponse

(***************************************************************************)
(* POST /api/admin/slots                                                   *)
(***************************************************************************)
SlotLocal(body) ==
  [NoLocal EXCEPT !.start = body.start, !.end = body.end,
     !.capacity = IF body.capacity = <<>> THEN 1 ELSE body.capacity[1]]

\* Validation and `await db.get(SELECT id FROM admin_slots WHERE ...)`.  The
\* handler touches nothing shared before the SELECT runs, so the request is
\* taken to arrive at the moment its SELECT runs.
CreateSlotStart(p, body) ==
  /\ Free(p)
  /\ IF MissingTime(body.start) \/ MissingTime(body.end)
     THEN Respond(p, Reply("createSlot", 400, "start en end zijn vereist", NoId))
     ELSE IF SlotsAt(body.start, body.end) # {}
     THEN Respond(p, Reply("createSlot", 409, "Slot bestaat al", NoId))
     ELSE Goto(p, "slotInsert", SlotLocal(body))
  /\ UNCHANGED <<db, config>>

CreateSlotInsert(p) ==
  /\ pc[p] = "slotInsert"
  /\ slotSeq < MaxSlotRows
  /\ slotSeq' = slotSeq + 1
  /\ slots' = slots \cup {[id |-> slotSeq + 1, start_time |-> local[p].start,
                           end_time |-> local[p].end, capacity |-> local[p].capacity]}
  /\ Respond(p, Reply("createSlot", 201, "", slotSeq + 1))
  /\ UNCHANGED <<bookings, bookingSeq, config>>

\* the SELECT of a valid request rejects: catch (e) -> 500 with e.message
CreateSlotCheckFail(p) ==
  /\ Free(p)
  /\ Respond(p, Reply("createSlot", 500, "e.message", NoId))
  /\ UNCHANGED <<db, config>>

\* the INSERT rejects: catch (e) -> 500 with e.message
CreateSlotInsertFail(p) ==
  /\ pc[p] = "slotInsert"
  /\ Respond(p, Reply("createSlot", 500, "e.message", NoId))
  /\ UNCHANGED <<db, config>>

(***************************************************************************)
(* GET /api/slots, GET /api/slots/admin, GET /api/admin/bookings           *)
(***************************************************************************)
ListLimit == 50

\* the orders in which a query may return the rows S under
\* ORDER BY start_time ASC (dir = 1) or ORDER BY start_time DESC (dir = -1)
OrderedByStart(S, dir) ==
  {f \in [1..Cardinality(S) -> S] :
     /\ \A i, j \in DOMAIN f : i # j => f[i] # f[j]
     /\ \A i, j \in DOMAIN f : i < j => dir * f[i].start_time <= dir * f[j].start_time}

\* the list filter comparing with the stored capacity: booked < r.capacity
IsAvailable_StoredCapacity(r) == Occupancy(r.start_time, r.end_time) < r.capacity

\* (r.booked || 0) < (r.capacity || 1)
IsAvailable(r) == Occupancy(r.start_time, r.end_time) < EffectiveCapacity(r.capacity)

\* .map(r => ({ id: r.id, start: r.start, end: r.end }))
SlotView(f) ==
  [i \in DOMAIN f |-> [id |-> f[i].id, start |-> f[i].start_time, end |-> f[i].end_time]]

\* the bodies GET /api/slots may answer with at time `now`
AvailableSlots(now) ==
  {SlotView(SelectSeq(f, IsAvailable)) :
     f \in OrderedByStart({s \in slots : s.end_time > now}, 1)}

\* a LIMIT that keeps the last n rows of the ordered result
Limit_Last(f, n) == SubSeq(f, IF Len(f) < n THEN 1 ELSE Len(f) - n + 1, Len(f))

\* LIMIT n: the first n rows of the ordered result f, all of them if fewer
Limit(f, n) == SubSeq(f, 1, IF Len(f) < n THEN Len(f) ELSE n)

\* SELECT * FROM bookings ORDER BY start_time DESC LIMIT 50
LatestBookings == {Limit(f, ListLimit) : f \in OrderedByStart(bookings, -1)}

ListSlots(p, now) ==
  /\ Free(p)
  /\ \E rows \in AvailableSlots(now) : Respond(p, ReplyRows("slots", rows))
  /\ UNCHANGED <<db, config>>

ListSlotsAdmin(p, now) ==
  /\ Free(p)
  /\ \E rows \in AvailableSlots(now) : Respond(p, ReplyRows("slotsAdmin", rows))
  /\ UNCHANGED <<db, config>>

ListBookings(p) ==
  /\ Free(p)
  /\ \E rows \in LatestBookings : Respond(p, ReplyRows("bookings", rows))
  /\ UNCHANGED <<db, config>>

\* db.all rejects: catch (e) -> 500
ListSlotsFail(p) ==
  /\ Free(p)
  /\ Respond(p, Reply("slots", 500, "Kon slots niet ophalen", NoId))
  /\ UNCHANGED <<db, config>>

ListSlotsAdminFail(p) ==
  /\ Free(p)
  /\ Respond(p, Reply("slotsAdmin", 500, "Kon admin-slots niet ophalen", NoId))
  /\ UNCHANGED <<db, config>>

ListBookingsFail(p) ==
  /\ Free(p)
  /\ Respond(p, Reply("bookings", 500, "e.message", NoId))
  /\ UNCHANGED <<db, config>>

(***************************************************************************)
(* DELETE /api/admin/slots/:id  (a single storage statement)               *)
(***************************************************************************)
SlotIds == 1..(MaxSlotRows + 1)

\* a delete that cascades to the bookings of the slot's (start, end)
DeleteSlot_Cascade(p, id) ==
  /\ Free(p)
  /\ slots' = {s \in slots : s.id # id}
  /\ bookings' = {b \in bookings :
                    \A s \in slots \ slots' :
                      ~(b.start_time = s.start_time /\ b.end_time = s.end_time)}
  /\ IF slots' = slots
     THEN Respond(p, Reply("deleteSlot", 404, "Slot niet gevonden", NoId))
     ELSE Respond(p, Reply("deleteSlot", 200, "", NoId))
  /\ UNCHANGED <<slotSeq, bookingSeq, config>>

\* the delete without its `result.changes === 0` test
DeleteSlot_NoChangesTest(p, id) ==
  /\ Free(p)
  /\ slots' = {s \in slots : s.id # id}
  /\ Respond(p, Reply("deleteSlot", 200, "", NoId))
  /\ UNCHANGED <<bookings, slotSeq, bookingSeq, config>>

DeleteSlot(p, id) ==
  /\ Free(p)
  /\ slots' = {s \in slots : s.id # id}
  /\ IF slots' = slots
     THEN Respond(p, Reply("deleteSlot", 404, "Slot niet gevonden", NoId))
     ELSE Respond(p, Reply("deleteSlot", 200, "", NoId))
  /\ UNCHANGED <<bookings, slotSeq, bookingSeq, config>>

\* the DELETE rejects: catch (e) -> 500 with e.message
DeleteSlotFail(p) ==
  /\ Free(p)
  /\ Respond(p, Reply("deleteSlot", 500, "e.message", NoId))
  /\ UNCHANGED <<db, config>>

(***************************************************************************)
(* POST /api/bookings                                                      *)
(***************************************************************************)
BookLocal(body) ==
  [NoLocal EXCEPT !.name = body.name, !.email = body.email,
     !.phone = body.phone, !.start = body.start, !.end = body.end]

\* the validation without its `!email` test
MissingField_NoEmail(body) ==
  \/ MissingText(body.name)
  \/ MissingTime(body.start) \/ MissingTime(body.end)

\* !name || !email || !start || !end
MissingField(body) ==
  \/ MissingText(body.name) \/ MissingText(body.email)
  \/ MissingTime(body.start) \/ MissingTime(body.end)

\* the handler without its `if (!slot)` test
BookStart_NoSlotCheck(p, body) ==
  /\ Free(p)
  /\ IF MissingField(body)
     THEN Respond(p, Reply("book", 400, "Verplichte velden ontbreken", NoId))
     ELSE IF /\ SlotsAt(body.start, body.end) # {}
             /\ \A slot \in SlotsAt(body.start, body.end) :
                  Occupancy(slot.start_time, slot.end_time) >= EffectiveCapacity(slot.capacity)
     THEN Respond(p, Reply("book", 409, "Slot volzet", NoId))
     ELSE Goto(p, "bookInsert", BookLocal(body))
  /\ UNCHANGED <<db, config>>

\* Validation, `await db.get(SELECT s.*, (SELECT COUNT(1) ...) as booked ...)`
\* and the two checks on its result.  The handler touches nothing shared
\* before the SELECT runs, so the request is taken to arrive at the moment
\* its SELECT runs.
BookStart(p, body) ==
  /\ Free(p)
  /\ IF MissingField(body)
     THEN Respond(p, Reply("book", 400, "Verplichte velden ontbreken", NoId))
     ELSE IF SlotsAt(body.start, body.end) = {}
     THEN Respond(p, Reply("book", 400, "Slot niet (meer) beschikbaar", NoId))
     ELSE \E slot \in SlotsAt(body.start, body.end) :
            IF Occupancy(slot.start_time, slot.end_time) >= EffectiveCapacity(slot.capacity)
            THEN Respond(p, Reply("book", 409, "Slot volzet", NoId))
            ELSE Goto(p, "bookInsert", BookLocal(body))
  /\ UNCHANGED <<db, config>>

\* phone || null
PhoneOrNull(phone) == IF MissingText(phone) THEN NULL ELSE phone

BookingRow(id, l) ==
  [id |-> id, name |-> l.name, email |-> l.email, phone |-> PhoneOrNull(l.phone),
   start_time |-> l.start, end_time |-> l.end, google_event_id |-> NoId]

\* the mail section without its `if (transporter)` test
MailSection_Unconditional(p, l) == Goto(p, "mailAdmin", l)

\* if (transporter) { await transporter.sendMail(<admin notification>) ...
\* else res.status(201).json({ id: bookingId, ... })
MailSection(p, l) ==
  IF mailOn
  THEN Goto(p, "mailAdmin", l)
  ELSE Respond(p, Reply("book", 201, "", l.bookingId))

\* an insert that also takes a seat off the slot's capacity
BookInsert_TakesSeat(p) ==
  /\ pc[p] = "bookInsert"
  /\ bookingSeq < MaxBookingRows
  /\ bookingSeq' = bookingSeq + 1
  /\ bookings' = bookings \cup {BookingRow(bookingSeq + 1, local[p])}
  /\ slots' = {IF s.start_time = local[p].start /\ s.end_time = local[p].end
               THEN [s EXCEPT !.capacity = s.capacity - 1] ELSE s : s \in slots}
  /\ LET l == [local[p] EXCEPT !.bookingId = bookingSeq + 1] IN
       IF calendarOn THEN Goto(p, "calendar", l) ELSE MailSection(p, l)
  /\ UNCHANGED <<slotSeq, config>>

\* await db.run(INSERT INTO bookings ...), then on to the first side effect:
\* calendar.events.insert is called if (calendar && SYNC_TO_GOOGLE === 'true')
BookInsert(p) ==
  /\ pc[p] = "bookInsert"
  /\ bookingSeq < MaxBookingRows
  /\ bookingSeq' = bookingSeq + 1
  /\ bookings' = bookings \cup {BookingRow(bookingSeq + 1, local[p])}
  /\ LET l == [local[p] EXCEPT !.bookingId = bookingSeq + 1] IN
       IF calendarOn THEN Goto(p, "calendar", l) ELSE MailSection(p, l)
  /\ UNCHANGED <<slots, slotSeq, config>>

\* the slot lookup of a valid request rejects: outer catch -> 500
BookLookupFail(p) ==
  /\ Free(p)
  /\ Respond(p, Reply("book", 500, "Er ging iets mis bij het boeken", NoId))
  /\ UNCHANGED <<db, config>>

\* an INSERT that stores the row and then rejects
BookInsertFail_RowKept(p) ==
  /\ pc[p] = "bookInsert"
  /\ bookingSeq < MaxBookingRows
  /\ bookingSeq' = bookingSeq + 1
  /\ bookings' = bookings \cup {BookingRow(bookingSeq + 1, local[p])}
  /\ Respond(p, Reply("book", 500, "Er ging iets mis bij het boeken", NoId))
  /\ UNCHANGED <<slots, slotSeq, config>>

\* the INSERT rejects: outer catch -> 500
BookInsertFail(p) ==
  /\ pc[p] = "bookInsert"
  /\ Respond(p, Reply("book", 500, "Er ging iets mis bij het boeken", NoId))
  /\ UNCHANGED <<db, config>>

\* resp.data.id: the calendar names each event it creates; the reference it
\* returns for the event of booking `id` is written EventRef(id).
EventRef(id) == id

\* the event is created for the booking inserted last, not for the handler's own
CalendarInserted_LastBooking(p) ==
  /\ pc[p] = "calendar"
  /\ Goto(p, "attach", [local[p] EXCEPT !.eventId = EventRef(bookingSeq)])
  /\ UNCHANGED <<db, config>>

\* calendar.events.insert resolves with the new event
CalendarInserted(p) ==
  /\ pc[p] = "calendar"
  /\ Goto(p, "attach", [local[p] EXCEPT !.eventId = EventRef(local[p].bookingId)])
  /\ UNCHANGED <<db, config>>

\* a calendar failure that reaches the outer catch
CalendarFailed_Propagates(p) ==
  /\ pc[p] = "calendar"
  /\ Respond(p, Reply("book", 500, "Er ging iets mis bij het boeken", NoId))
  /\ UNCHANGED <<db, config>>

\* calendar.events.insert rejects: inner catch, continue with the mails
CalendarFailed(p) ==
  /\ pc[p] = "calendar"
  /\ MailSection(p, local[p])
  /\ UNCHANGED <<db, config>>

\* the UPDATE without its WHERE clause
AttachEvent_AllRows(p) ==
  /\ pc[p] = "attach"
  /\ bookings' = {[b EXCEPT !.google_event_id = local[p].eventId] : b \in bookings}
  /\ MailSection(p, local[p])
  /\ UNCHANGED <<slots, slotSeq, bookingSeq, config>>

\* await db.run(UPDATE bookings SET google_event_id = ? WHERE id = ?)
AttachEvent(p) ==
  /\ pc[p] = "attach"
  /\ bookings' = {IF b.id = local[p].bookingId
                  THEN [b EXCEPT !.google_event_id = local[p].eventId] ELSE b
                  : b \in bookings}
  /\ MailSection(p, local[p])
  /\ UNCHANGED <<slots, slotSeq, bookingSeq, config>>

\* the UPDATE rejects: inner catch, continue with the mails
AttachEventFail(p) ==
  /\ pc[p] = "attach"
  /\ MailSection(p, local[p])
  /\ UNCHANGED <<db, config>>

\* the admin notification was sent; the client confirmation is sent next
MailAdminSent(p) ==
  /\ pc[p] = "mailAdmin"
  /\ Goto(p, "mailClient", local[p])
  /\ UNCHANGED <<db, config>>

\* the admin notification rejects: catch, respond
MailAdminFailed(p) ==
  /\ pc[p] = "mailAdmin"
  /\ Respond(p, Reply("book", 201, "", local[p].bookingId))
  /\ UNCHANGED <<db, config>>

\* the client confirmation resolves or rejects: respond either way
MailClientReturned(p) ==
  /\ pc[p] = "mailClient"
  /\ Respond(p, Reply("book", 201, "", local[p].bookingId))
  /\ UNCHANGED <<db, config>>

\* Steps of a handler that only wait for the local storage engine.
HandlerStep(p) ==
  \/ CreateSlotInsert(p)
  \/ BookInsert(p)
  \/ AttachEvent(p)

\* Arrival of a request that writes, with its body drawn from the given sets.
Arrival(p, slotBodies, bookingBodies) ==
  \/ \E body \in slotBodies : CreateSlotStart(p, body)
  \/ \E id \in SlotIds : DeleteSlot(p, id)
  \/ \E body \in bookingBodies : BookStart(p, body)

\* The current time of a list request.
Nows == 0..(MaxTime + 1)

\* A request that only reads.
Read(p) ==
  \/ \E now \in Nows : ListSlots(p, now)
  \/ \E now \in Nows : ListSlotsAdmin(p, now)
  \/ ListBookings(p)
  \/ ListSlotsFail(p)
  \/ ListSlotsAdminFail(p)
  \/ ListBookingsFail(p)

\* Faults of the storage engine.
StorageFault(p) ==
  \/ CreateSlotCheckFail(p)
  \/ CreateSlotInsertFail(p)
  \/ DeleteSlotFail(p)
  \/ BookLookupFail(p)
  \/ BookInsertFail(p)
  \/ AttachEventFail(p)

\* Outcomes of the calls to the calendar and mail services.
ExternalReturn(p) ==
  \/ CalendarInserted(p)
  \/ CalendarFailed(p)
  \/ MailAdminSent(p)
  \/ MailAdminFailed(p)
  \/ MailClientReturned(p)

\* All writing requests, over every range of the model.
Next ==
  \E p \in Procs :
    \/ Arrival(p, SlotBodies, BookingBodies)
    \/ HandlerStep(p)
    \/ StorageFault(p)
    \/ ExternalReturn(p)

Spec == Init /\ [][Next]_vars

\* Requests for the first range only.
FirstSlotBodies == {b \in SlotBodies \cup NullSlotBodies : b.start <= 1}

FirstBookingBodies == {b \in BookingBodies : b.start <= 1}

\* All requests, reading ones included, over the first range.
NextAll ==
  \E p \in Procs :
    \/ Arrival(p, FirstSlotBodies, FirstBookingBodies)
    \/ Read(p)
    \/ HandlerStep(p)
    \/ StorageFault(p)
    \/ ExternalReturn(p)

AllSpec == Init /\ [][NextAll]_vars

\* The handlers and the local storage engine make progress; the calendar and
\* mail services give no such guarantee.
FairSpec == AllSpec /\ \A p \in Procs : WF_vars(HandlerStep(p))

\* A deployment without mail sender and without calendar client.
InitPlain == Init /\ ~calendarOn /\ ~mailOn

\* All requests over every range of the model, in such a deployment.
NextPlain ==
  \E p \in Procs :
    \/ Arrival(p, SlotBodies, BookingBodies)
    \/ \E now \in Nows : ListSlots(p, now)
    \/ \E now \in Nows : ListSlotsAdmin(p, now)
    \/ ListBookings(p)
    \/ CreateSlotInsert(p)
    \/ BookInsert(p)

PlainSpec == InitPlain /\ [][NextPlain]_vars

(***************************************************************************)
(* Properties.                                                             *)
(***************************************************************************)
SlotUnavailable == Reply("book", 400, "Slot niet (meer) beschikbaar", NoId)
ValidationError == Reply("book", 400, "Verplichte velden ontbreken", NoId)
SlotFull == Reply("book", 409, "Slot volzet", NoId)
Created(id) == Reply("book", 201, "", id)

BookingIds(rows) == {b.id : b \in rows}

\* the step serves a newly arrived Admit Booking request with handler p: it
\* answers it at once or takes it to the insert
AdmitArrives(p) ==
  /\ Free(p)
  /\ pc'[p] = "bookInsert" \/ response'.route = "book"

\* the handler of p has inserted its booking row and has not responded yet
Committed(p) == pc[p] \in {"calendar", "attach", "mailAdmin", "mailClient"}

\* C1: no slot created with a capacity of one or more ever holds more
\* bookings of its (start, end) than that capacity, whatever the interleaving
\* of the Admit Booking requests.
C1_NoOverbooking ==
  \A s \in slots :
    s.capacity >= 1 => Occupancy(s.start_time, s.end_time) <= s.capacity

\* C2: no two rows of admin_slots share their (start, end) pair.
C2_NoDuplicateSlots ==
  \A s, t \in slots :
    (s.start_time = t.start_time /\ s.end_time = t.end_time) => s = t

\* C3: a booking row is inserted only while a slot with exactly its
\* (start, end) exists.
C3_SlotExistsAtInsert ==
  [][\A b \in bookings' :
       b.id \notin BookingIds(bookings) => SlotsAt(b.start_time, b.end_time) # {}]_vars

\* C4: a complete Admit Booking request that runs with no other request in
\* flight, against the one slot of its (start, end): when the occupancy equals
\* the capacity it is answered 409 SlotFull and no row is created; when the
\* occupancy is below the capacity it goes on to the insert, and the insert
\* raises the occupancy of that (start, end) by exactly one.
C4_AdmitBySeats ==
  [][\A p \in Procs :
       /\ (AdmitArrives(p) /\ \A q \in Procs \ {p} : pc[q] = "idle")
            => \A body \in CompleteBookingBodies :
                 BookStart(p, body)
                 => \A s \in SlotsAt(body.start, body.end) :
                      Cardinality(SlotsAt(body.start, body.end)) = 1 =>
                        /\ Occupancy(s.start_time, s.end_time) = s.capacity
                             => (response' = SlotFull /\ bookings' = bookings)
                        /\ Occupancy(s.start_time, s.end_time) < s.capacity
                             => pc'[p] = "bookInsert"
       /\ (pc[p] = "bookInsert" /\ pc'[p] # "bookInsert" /\ bookingSeq' # bookingSeq)
            => /\ OccupancyIn(bookings', local[p].start, local[p].end)
                    = Occupancy(local[p].start, local[p].end) + 1
               /\ Cardinality(bookings') = Cardinality(bookings) + 1]_vars

\* C5: a complete Admit Booking request whose (start, end) matches no slot
\* when its lookup runs is answered 400 SlotUnavailable, and the bookings are
\* left as they were.
C5_NoSlotIsUnavailable ==
  [][\A p \in Procs :
       AdmitArrives(p)
       => \A body \in CompleteBookingBodies :
            (SlotsAt(body.start, body.end) = {} /\ BookStart(p, body))
            => (response' = SlotUnavailable /\ bookings' = bookings /\ pc'[p] = "idle")]_vars

\* a 400 SlotUnavailable is sent for a range whose slot was deleted, while a
\* slot of another range exists
C5_Witness ==
  /\ response = SlotUnavailable
  /\ slots # {}
  /\ slotSeq > Cardinality(slots)

\* C6: an Admit Booking request with name, email, start or end missing is
\* answered 400 ValidationError; storage is left as it was and no handler
\* moves, so no lookup, insert, calendar or mail call is made for it.
C6_MissingFieldRejected ==
  [][\A p \in Procs :
       AdmitArrives(p)
       => \A body \in BookingBodies \ CompleteBookingBodies :
            BookStart(p, body)
            => (response' = ValidationError /\ UNCHANGED db /\ pc' = pc /\ local' = local)]_vars

\* a 400 ValidationError is sent while a slot with a free seat exists
C6_Witness ==
  /\ response = ValidationError
  /\ \E s \in slots : IsAvailable(s)

\* C7: a step that removes a slot removes exactly one slot and leaves every
\* booking row as it was, those of the removed slot's (start, end) included.
C7_DeleteKeepsBookings ==
  [][(slots' # slots /\ slots' \subseteq slots)
       => (Cardinality(slots \ slots') = 1 /\ bookings' = bookings)]_vars

\* a slot was deleted (200) and a booking of its (start, end) is still stored
C7_Witness ==
  /\ response = Reply("deleteSlot", 200, "", NoId)
  /\ \E b \in bookings : SlotsAt(b.start_time, b.end_time) = {}

\* C8: every booking row stays, with the same id, name, email, phone, start
\* and end; its calendar-event reference changes only from none to the
\* reference the handler of that booking got from the calendar.
C8_BookingsOnlyGrow ==
  [][\A b \in bookings :
       \E c \in bookings' :
         /\ c.id = b.id /\ c.name = b.name /\ c.email = b.email /\ c.phone = b.phone
         /\ c.start_time = b.start_time /\ c.end_time = b.end_time
         /\ \/ c.google_event_id = b.google_event_id
            \/ /\ b.google_event_id = NoId
               /\ \E p \in Procs :
                    /\ pc[p] = "attach"
                    /\ local[p].bookingId = b.id
                    /\ c.google_event_id = local[p].eventId]_vars

\* two bookings are stored, one with a calendar-event reference, one without
C8_Witness ==
  /\ \E b \in bookings : b.google_event_id # NoId
  /\ \E b \in bookings : b.google_event_id = NoId
  /\ response.route = "bookings" /\ Len(response.body) = 2

\* C9: once the booking row of a request is inserted, the row stays and the
\* only response the request can get is 201 with the id of that row, whatever
\* the calendar and the mail calls do.
C9_SideEffectsNeverFail ==
  [][\A p \in Procs :
       /\ (pc[p] = "bookInsert" /\ bookings' # bookings /\ pc'[p] = "idle")
            => (response' = Created(bookingSeq') /\ bookingSeq' \in BookingIds(bookings'))
       /\ Committed(p)
            => /\ local[p].bookingId \in BookingIds(bookings')
               /\ pc'[p] = "idle" => response' = Created(local[p].bookingId)
               /\ pc'[p] # "idle" => local'[p].bookingId = local[p].bookingId]_vars

\* 201 is sent for a booking whose calendar sync failed, with mail configured
C9_Witness ==
  /\ calendarOn /\ mailOn
  /\ response.route = "book" /\ response.status = 201
  /\ \E b \in bookings : b.id = response.id /\ b.google_event_id = NoId

\* C10: once the booking row of a request is inserted, the request is
\* eventually answered, given only that the handlers and storage make progress.
C10_ResponseNotBlocked ==
  \A p \in Procs : Committed(p) ~> (pc[p] = "idle")

\* the handler of p leaves the position it is at
Leaves(p) == pc'[p] # pc[p]

\* C11: with a mail sender configured, the handler of every inserted booking
\* goes on to send the admin notification, directly or after the calendar
\* call whatever its outcome, and from the admin notification, whatever its
\* outcome, to send the client confirmation.
C11_MailsIndependent ==
  [][mailOn =>
       \A p \in Procs :
         /\ (pc[p] = "bookInsert" /\ Leaves(p) /\ bookingSeq' # bookingSeq)
              => pc'[p] \in {"calendar", "mailAdmin"}
         /\ (pc[p] = "calendar" /\ Leaves(p)) => pc'[p] \in {"attach", "mailAdmin"}
         /\ (pc[p] = "attach" /\ Leaves(p)) => pc'[p] = "mailAdmin"
         /\ (pc[p] = "mailAdmin" /\ Leaves(p)) => pc'[p] = "mailClient"]_vars

\* C12: a handler calls the calendar or the mail sender only after inserting
\* its own booking row, and the row is there while it does; a request answered
\* 400, 409 or 500 has made no such call; no calendar call is made with
\* calendar sync off and no mail call without a mail sender, and with both off
\* the insert is answered 201 at once.
C12_SideEffectsAfterInsert ==
  [][\A p \in Procs :
       /\ (~Committed(p) /\ pc'[p] \in {"calendar", "attach", "mailAdmin", "mailClient"})
            => /\ pc[p] = "bookInsert"
               /\ bookingSeq' = bookingSeq + 1
               /\ local'[p].bookingId = bookingSeq'
               /\ bookingSeq' \in BookingIds(bookings') \ BookingIds(bookings)
       /\ pc'[p] \in {"calendar", "attach", "mailAdmin", "mailClient"}
            => local'[p].bookingId \in BookingIds(bookings')
       /\ (response'.route = "book" /\ response'.status \in {400, 409, 500})
            => (Committed(p) => ~Leaves(p))
       /\ ~calendarOn => pc'[p] \notin {"calendar", "attach"}
       /\ ~mailOn => pc'[p] \notin {"mailAdmin", "mailClient"}
       /\ (~calendarOn /\ ~mailOn /\ pc[p] = "bookInsert" /\ Leaves(p)
             /\ bookingSeq' # bookingSeq)
            => (response' = Created(bookingSeq') /\ pc'[p] = "idle")]_vars

\* without mail sender and calendar sync, a booking was inserted and answered
\* 201 by the same step
C12_Witness ==
  /\ ~calendarOn /\ ~mailOn
  /\ response.route = "book" /\ response.status = 201
  /\ response.id \in BookingIds(bookings)

\* rows lists exactly the slots of the set S, each once, by ascending start
ListsAscending(rows, S) ==
  /\ Len(rows) = Cardinality(S)
  /\ {rows[i] : i \in DOMAIN rows} = {[id |-> s.id, start |-> s.start_time, end |-> s.end_time] : s \in S}
  /\ \A i, j \in DOMAIN rows : i < j => rows[i].start <= rows[j].start

\* C13: a list of available slots answered at time now holds exactly the slots
\* that end after now and whose occupancy is below their capacity, by
\* ascending start, and the request changes nothing.
C13_ListsOpenSlots ==
  [][\A p \in Procs :
       (Free(p) /\ response'.route \in {"slots", "slotsAdmin"} /\ response'.status = 200)
       => \A now \in Nows :
            (ListSlots(p, now) \/ ListSlotsAdmin(p, now))
            => /\ ListsAscending(response'.body,
                     {s \in slots : /\ s.end_time > now
                                    /\ Occupancy(s.start_time, s.end_time) < s.capacity})
               /\ UNCHANGED <<db, config, pc, local>>]_vars

SlotNotFound == Reply("deleteSlot", 404, "Slot niet gevonden", NoId)
SlotDeleted == Reply("deleteSlot", 200, "", NoId)

\* C14: a Delete slot whose id matches no slot is answered 404 and leaves slots
\* and bookings as they were; one whose id matches a slot is answered 200 and
\* removes the slot of that id and no other.  Ids are never given out twice,
\* so after the 200 no later or concurrent delete of the same id finds a slot.
C14_DeleteOnceThenNotFound ==
  [][/\ \A p \in Procs :
          (Free(p) /\ response'.route = "deleteSlot" /\ response'.status # 500)
          => \A id \in SlotIds :
               DeleteSlot(p, id)
               => IF \E s \in slots : s.id = id
                  THEN /\ response' = SlotDeleted
                       /\ slots' = {s \in slots : s.id # id}
                       /\ Cardinality(slots \ slots') = 1
                       /\ bookings' = bookings
                  ELSE /\ response' = SlotNotFound
                       /\ slots' = slots
                       /\ bookings' = bookings
     /\ \A s \in slots' \ slots : s.id > slotSeq /\ s.id <= slotSeq'
     /\ \A s \in slots : s.id <= slotSeq
     /\ \A s, t \in slots' : s.id = t.id => s = t
     /\ slotSeq' >= slotSeq]_vars

\* after a slot was deleted, a Delete slot is answered 404 while a booking of
\* the deleted slot is still stored
C14_Witness ==
  /\ response = SlotNotFound
  /\ slotSeq > Cardinality(slots)
  /\ \E b \in bookings : SlotsAt(b.start_time, b.end_time) = {}

SlotCreated(id) == Reply("createSlot", 201, "", id)

\* C15: a slot row keeps its start, end and capacity for as long as it is
\* stored; a row is added only by the insert of a Create slot and removed only
\* by a Delete slot answered 200; no step of Admit Booking, its calendar and
\* mail calls included, and no list request changes the set of slots.
C15_SlotsImmutable ==
  [][/\ \A s \in slots : s \in slots' \/ \A t \in slots' : t.id # s.id
     /\ slots' \ slots # {}
          => /\ \E p \in Procs : pc[p] = "slotInsert" /\ Leaves(p)
             /\ response' = SlotCreated(slotSeq')
             /\ slots \subseteq slots'
             /\ Cardinality(slots') = Cardinality(slots) + 1
     /\ slots \ slots' # {} => (response' = SlotDeleted /\ slots' \subseteq slots)
     /\ \A p \in Procs :
          /\ AdmitArrives(p) => slots' = slots
          /\ ((pc[p] = "bookInsert" \/ Committed(p)) /\ Leaves(p)) => slots' = slots
     /\ response'.route \in {"book", "slots", "slotsAdmin", "bookings"} => slots' = slots]_vars

\* with calendar sync and mail sender on, a booking that fills a slot of
\* capacity 2 is answered 201 and the slot still has capacity 2
C15_Witness ==
  /\ calendarOn /\ mailOn
  /\ response.route = "book" /\ response.status = 201
  /\ \E s \in slots : s.capacity = 2 /\ Occupancy(s.start_time, s.end_time) = 2

Min(a, b) == IF a < b THEN a ELSE b

\* rows holds n of the rows of S, each once, by descending start, and no row
\* of S left out starts later than a row it holds
LatestOf(rows, S, n) ==
  /\ Len(rows) = n
  /\ \A i \in DOMAIN rows : rows[i] \in S
  /\ \A i, j \in DOMAIN rows : i # j => rows[i] # rows[j]
  /\ \A i, j \in DOMAIN rows : i < j => rows[i].start_time >= rows[j].start_time
  /\ \A b \in S \ {rows[i] : i \in DOMAIN rows} :
       \A i \in DOMAIN rows : b.start_time <= rows[i].start_time

NoRefIn(rows, id) == \A b \in rows : b.id = id => b.google_event_id = NoId

\* C17: a booking row carries no event reference or the reference the calendar
\* returned for that very booking; a row is inserted without reference, and
\* gets one only by the UPDATE of the handler that inserted it, after the
\* calendar call of that handler succeeded; when the call fails, or calendar
\* sync is off, the row stays without reference.
C17_OwnEventRefOnly ==
  [][/\ \A b \in bookings' :
          /\ b.google_event_id \in {NoId, EventRef(b.id)}
          /\ b.google_event_id # NoId => calendarOn
          /\ b.id \notin BookingIds(bookings) => b.google_event_id = NoId
          /\ (b.google_event_id # NoId /\ NoRefIn(bookings, b.id))
               => \E p \in Procs :
                    /\ pc[p] = "attach" /\ Leaves(p)
                    /\ local[p].bookingId = b.id
                    /\ local[p].eventId = EventRef(b.id)
     /\ \A p \in Procs :
          /\ (pc'[p] = "attach" /\ pc[p] # "attach")
               => /\ pc[p] = "calendar"
                  /\ local'[p].bookingId = local[p].bookingId
                  /\ local'[p].eventId = EventRef(local[p].bookingId)
          /\ (pc[p] = "calendar" /\ Leaves(p) /\ pc'[p] # "attach")
               => NoRefIn(bookings', local[p].bookingId)
          /\ \A q \in Procs \ {p} :
               (Committed(p) /\ Committed(q)) => local[p].bookingId # local[q].bookingId]_vars

\* one booking carries its own event reference while the handler of another
\* booking is about to attach the reference it got
C17_Witness ==
  \E b \in bookings :
    /\ b.google_event_id = EventRef(b.id)
    /\ \E p \in Procs : pc[p] = "attach" /\ local[p].bookingId # b.id

\* C18: an Admit Booking request answered 400, 409 or 500 has inserted no
\* booking row; one answered 201 has inserted exactly one row, whose id is
\* the id answered; and every inserted row belongs to one request, which can
\* from then on only be answered 201 with that id.
C18_RowIffCreated ==
  [][/\ (response'.route = "book" /\ response'.status \in {400, 409, 500})
          => /\ bookings' = bookings /\ bookingSeq' = bookingSeq
             /\ \A p \in Procs : Leaves(p) => pc[p] = "bookInsert"
     /\ (response'.route = "book" /\ response'.status = 201)
          => /\ Cardinality({b \in bookings' : b.id = response'.id}) = 1
             /\ \E p \in Procs :
                  /\ Leaves(p) /\ pc'[p] = "idle"
                  /\ \/ /\ pc[p] = "bookInsert"
                        /\ response'.id = bookingSeq + 1
                        /\ response'.id \notin BookingIds(bookings)
                     \/ /\ Committed(p)
                        /\ response'.id = local[p].bookingId
     /\ bookings' # bookings
          => \/ /\ BookingIds(bookings') = BookingIds(bookings) \cup {bookingSeq + 1}
                /\ bookingSeq + 1 \notin BookingIds(bookings)
                /\ Cardinality(bookings') = Cardinality(bookings) + 1
                /\ \E p \in Procs :
                     /\ pc[p] = "bookInsert" /\ Leaves(p)
                     /\ \/ response' = Created(bookingSeq + 1)
                        \/ pc'[p] # "idle" /\ local'[p].bookingId = bookingSeq + 1
             \/ /\ BookingIds(bookings') = BookingIds(bookings)
                /\ Cardinality(bookings') = Cardinality(bookings)
     /\ \A p \in Procs :
          (Committed(p) /\ Leaves(p))
          => /\ BookingIds(bookings') = BookingIds(bookings)
             /\ pc'[p] \in {"attach", "mailAdmin", "mailClient", "idle"}
             /\ pc'[p] = "idle" => response' = Created(local[p].bookingId)]_vars

\* an Admit Booking request for a slot with a free seat is answered 500
\* and no booking row is stored
C18_Witness ==
  /\ response.route = "book" /\ response.status = 500
  /\ bookings = {}
  /\ \E s \in slots : IsAvailable(s)

\* the slot s is in the answer rows of a list of available slots
Listed(rows, s) == \E i \in DOMAIN rows : rows[i].id = s.id

\* C19: for the one slot s of the (start, end) of a complete Admit Booking
\* request, and the list of available slots as it would be answered in the
\* same state at any time now: if s is listed the request passes to the
\* insert; if s ends after now and is not listed the request is answered 409;
\* and whatever now is, even after the end of s, the request passes exactly
\* when s has a free seat, i.e. is listed at a time before its end.  The
\* insert of a request that passed is answered 201 (at once, when neither
\* calendar sync nor mail sender is configured).
C19_ListedIffAdmitted ==
  [][/\ \A p \in Procs :
       AdmitArrives(p)
       => \A body \in CompleteBookingBodies :
            (BookStart(p, body) /\ Cardinality(SlotsAt(body.start, body.end)) = 1)
            => \A s \in SlotsAt(body.start, body.end) :
                 /\ \A now \in Nows :
                      \A rows \in AvailableSlots(now) :
                        /\ Listed(rows, s) => pc'[p] = "bookInsert"
                        /\ (s.end_time > now /\ ~Listed(rows, s)) => response' = SlotFull
                 /\ \A rows \in AvailableSlots(0) :
                      /\ Listed(rows, s) <=> pc'[p] = "bookInsert"
                      /\ ~Listed(rows, s) <=> response' = SlotFull
                 /\ bookings' = bookings
     /\ \A p \in Procs :
          (pc[p] = "bookInsert" /\ Leaves(p) /\ bookingSeq' # bookingSeq /\ ~calendarOn /\ ~mailOn)
          => response' = Created(bookingSeq + 1)]_vars

\* of two slots one is listed and the other, full, is not: a request for the
\* full one has just been answered 409
C19_Witness ==
  /\ response = SlotFull
  /\ Cardinality(slots) = 2
  /\ \A s \in slots : Cardinality(SlotsAt(s.start_time, s.end_time)) = 1
  /\ \A rows \in AvailableSlots(0) : Len(rows) = 1

\* the number of seats listing and admission grant a slot of stored capacity c
Seats(c) == IF c \in {0, NullCapacity} THEN 1 ELSE c

\* C20: Create slot stores the capacity of the body as it is, 0 and null
\* included, and 1 when the body has none; a request that runs with no other
\* in flight, for the one slot of its (start, end), passes to the insert while
\* the occupancy is below the stored capacity, read as 1 when it is 0 or null,
\* and is answered 409 from then on; the insert raises the occupancy by one;
\* and a slot that has not ended is listed under the same condition.
C20_CapacityAsStored ==
  [][/\ \A p \in Procs :
          /\ (Free(p) /\ pc'[p] = "slotInsert")
               => \A body \in SlotBodies \cup NullSlotBodies :
                    CreateSlotStart(p, body)
                    => local'[p].capacity =
                         (IF body.capacity = <<>> THEN 1 ELSE body.capacity[1])
          /\ (pc[p] = "slotInsert" /\ Leaves(p) /\ slots' # slots)
               => \E s \in slots' \ slots :
                    /\ s.capacity = local[p].capacity
                    /\ s.start_time = local[p].start /\ s.end_time = local[p].end
                    /\ response' = SlotCreated(s.id)
          /\ (AdmitArrives(p) /\ \A q \in Procs \ {p} : pc[q] = "idle")
               => \A body \in CompleteBookingBodies :
                    (BookStart(p, body) /\ Cardinality(SlotsAt(body.start, body.end)) = 1)
                    => \A s \in SlotsAt(body.start, body.end) :
                         /\ Occupancy(s.start_time, s.end_time) < Seats(s.capacity)
                              => pc'[p] = "bookInsert"
                         /\ Occupancy(s.start_time, s.end_time) >= Seats(s.capacity)
                              => (response' = SlotFull /\ bookings' = bookings)
          /\ (pc[p] = "bookInsert" /\ Leaves(p) /\ bookingSeq' # bookingSeq)
               => OccupancyIn(bookings', local[p].start, local[p].end)
                    = Occupancy(local[p].start, local[p].end) + 1
     /\ \A now \in Nows :
          \A rows \in AvailableSlots(now) :
            \A s \in slots :
              Listed(rows, s)
                <=> (s.end_time > now /\ Occupancy(s.start_time, s.end_time) < Seats(s.capacity))]_vars

\* a slot stored with capacity 0 holds one booking and a further request for
\* it has just been answered 409
C20_Witness ==
  /\ response = SlotFull
  /\ \E s \in slots : s.capacity = 0 /\ Occupancy(s.start_time, s.end_time) = 1
=============================================================================
